---- MODULE Spec2Model ----
(***************************************************************************)
(* The KML -> CSV geometry extractor of convert.py.                        *)
(*                                                                         *)
(* Strings are sequences of one-character strings, so that split(),        *)
(* float() and the f-string formatting are computed character by           *)
(* character.  A float is a record [nan, val]: val is the (integral)       *)
(* value, nan marks float('nan').  The coordinate texts of the model use   *)
(* the alphabet digits, "n", "a", "," and " ", on which PyFloat agrees     *)
(* with Python's float(): a non-empty digit string is a number, "nan" is   *)
(* NaN, everything else raises ValueError.                                 *)
(***************************************************************************)
EXTENDS Integers, Sequences, FiniteSets

VARIABLES doc, pc, exc, i, placemark, csvfile, call, ret, db, conn

vars == <<doc, pc, exc, i, placemark, csvfile, call, ret, db, conn>>

(***************************************************************************)
(* Bounds                                                                  *)
(***************************************************************************)
\* placemarks in one document
MaxFeatures == 2
\* characters of a coordinate string handed to parse_coordinates alone
MaxLen == 7
\* coordinates of a sequence handed to coords_to_wkt alone
MaxCoords == 2

(***************************************************************************)
(* Python values                                                           *)
(***************************************************************************)
Digits == <<"0", "1", "2", "3", "4", "5", "6", "7", "8", "9">>

DigitSet == {Digits[k] : k \in 1..Len(Digits)}

DigitValue(c) == (CHOOSE k \in 1..Len(Digits) : Digits[k] = c) - 1

NaN == [nan |-> TRUE, val |-> 0]

Num(n) == [nan |-> FALSE, val |-> n]

\* float.__eq__, float.__lt__, float.__gt__: every comparison with NaN is False
FloatEq(a, b) == ~a.nan /\ ~b.nan /\ a.val = b.val

FloatLt(a, b) == ~a.nan /\ ~b.nan /\ a.val < b.val

FloatGt(a, b) == ~a.nan /\ ~b.nan /\ a.val > b.val

\* tuple.__eq__ of two distinct (lon, lat) tuples of distinct float objects
TupleEq(a, b) == FloatEq(a[1], b[1]) /\ FloatEq(a[2], b[2])

RECURSIVE MinFrom(_, _)
MinFrom(xs, m) ==
    IF xs = <<>> THEN m
    ELSE MinFrom(Tail(xs), IF FloatLt(Head(xs), m) THEN Head(xs) ELSE m)

\* min(xs) of a non-empty list: the first item, replaced by each later item that is < it
PyMin(xs) == MinFrom(Tail(xs), Head(xs))

RECURSIVE MaxFrom(_, _)
MaxFrom(xs, m) ==
    IF xs = <<>> THEN m
    ELSE MaxFrom(Tail(xs), IF FloatGt(Head(xs), m) THEN Head(xs) ELSE m)

\* max(xs) of a non-empty list
PyMax(xs) == MaxFrom(Tail(xs), Head(xs))

IsSpace(c) == c = " "

RECURSIVE PyLStrip(_)
PyLStrip(s) == IF s # <<>> /\ IsSpace(Head(s)) THEN PyLStrip(Tail(s)) ELSE s

RECURSIVE PyRStrip(_)
PyRStrip(s) ==
    IF s # <<>> /\ IsSpace(s[Len(s)]) THEN PyRStrip(SubSeq(s, 1, Len(s) - 1)) ELSE s

\* str.strip()
PyStrip(s) == PyRStrip(PyLStrip(s))

RECURSIVE WordLen(_)
WordLen(s) == IF s = <<>> \/ IsSpace(Head(s)) THEN 0 ELSE 1 + WordLen(Tail(s))

\* str.split(): the maximal runs of non-whitespace characters
RECURSIVE PySplit(_)
PySplit(s) ==
    IF s = <<>> THEN <<>>
    ELSE IF IsSpace(Head(s)) THEN PySplit(Tail(s))
    ELSE LET n == WordLen(s)
         IN  <<SubSeq(s, 1, n)>> \o PySplit(SubSeq(s, n + 1, Len(s)))

RECURSIVE FieldLen(_)
FieldLen(s) == IF s = <<>> \/ Head(s) = "," THEN 0 ELSE 1 + FieldLen(Tail(s))

\* str.split(','): the fields between the commas, empty fields kept
RECURSIVE PySplitComma(_)
PySplitComma(s) ==
    LET n == FieldLen(s)
    IN  IF n = Len(s) THEN <<s>>
        ELSE <<SubSeq(s, 1, n)>> \o PySplitComma(SubSeq(s, n + 2, Len(s)))

RECURSIVE DigitsValue(_, _)
DigitsValue(s, acc) ==
    IF s = <<>> THEN acc ELSE DigitsValue(Tail(s), 10 * acc + DigitValue(Head(s)))

IsDigits(s) == s # <<>> /\ \A k \in 1..Len(s) : s[k] \in DigitSet

\* float() with a bug: text that is no number reads as 0.0
PyFloat_ZeroOnError(s) ==
    IF IsDigits(s) THEN [ok |-> TRUE, val |-> Num(DigitsValue(s, 0))]
    ELSE IF s = <<"n", "a", "n">> THEN [ok |-> TRUE, val |-> NaN]
    ELSE [ok |-> TRUE, val |-> Num(0)]

\* float(s): [ok, val]; ok = FALSE stands for ValueError
PyFloat(s) ==
    IF IsDigits(s) THEN [ok |-> TRUE, val |-> Num(DigitsValue(s, 0))]
    ELSE IF s = <<"n", "a", "n">> THEN [ok |-> TRUE, val |-> NaN]
    ELSE [ok |-> FALSE, val |-> NaN]

RECURSIVE NatStr(_)
NatStr(n) == IF n < 10 THEN <<Digits[n + 1]>> ELSE NatStr(n \div 10) \o <<Digits[(n % 10) + 1]>>

\* format(x, '') of a float inside an f-string: repr(x)
FloatStr(x) == IF x.nan THEN <<"n", "a", "n">> ELSE NatStr(x.val) \o <<".", "0">>

(***************************************************************************)
(* parse_coordinates, determine_geometry_type, coords_to_wkt               *)
(***************************************************************************)
Return(v) == [exc |-> "", val |-> v]

Raise(e) == [exc |-> e, val |-> <<>>]

\* element.text: None, or a string
NoneText == [none |-> TRUE, chars |-> <<>>]

Text(s) == [none |-> FALSE, chars |-> s]

\* the loop of parse_coordinates with a bug: a third part is read as the altitude
RECURSIVE ParseTokens_ReadsAltitude(_, _)
ParseTokens_ReadsAltitude(tokens, coords) ==
    IF tokens = <<>> THEN Return(coords)
    ELSE LET parts == PySplitComma(Head(tokens))
         IN  IF Len(parts) >= 2
             THEN LET lon == PyFloat(parts[1])
                      lat == PyFloat(parts[2])
                      alt == IF Len(parts) >= 3 THEN PyFloat(parts[3]) ELSE lat
                  IN  IF lon.ok /\ lat.ok /\ alt.ok
                      THEN ParseTokens_ReadsAltitude(Tail(tokens),
                                                     Append(coords, <<lon.val, lat.val>>))
                      ELSE Raise("ValueError")
             ELSE ParseTokens_ReadsAltitude(Tail(tokens), coords)

RECURSIVE ParseTokens(_, _)
ParseTokens(tokens, coords) ==
    IF tokens = <<>> THEN Return(coords)
    ELSE LET parts == PySplitComma(Head(tokens))
         IN  IF Len(parts) >= 2
             THEN LET lon == PyFloat(parts[1])
                      lat == PyFloat(parts[2])
                  IN  IF lon.ok /\ lat.ok
                      THEN ParseTokens(Tail(tokens), Append(coords, <<lon.val, lat.val>>))
                      ELSE Raise("ValueError")
             ELSE ParseTokens(Tail(tokens), coords)

parse_coordinates(coord_string) ==
    IF coord_string.none THEN Raise("AttributeError")
    ELSE ParseTokens(PySplit(PyStrip(coord_string.chars)), <<>>)

\* determine_geometry_type with a bug: two identical points are no ring
determine_geometry_type_RingOfThree(coords) ==
    IF Len(coords) = 1 THEN "Point"
    ELSE IF Len(coords) > 2 /\ TupleEq(coords[1], coords[Len(coords)]) THEN "Polygon"
    ELSE "LineString"

determine_geometry_type(coords) ==
    IF Len(coords) = 1 THEN "Point"
    ELSE IF TupleEq(coords[1], coords[Len(coords)]) THEN "Polygon"
    ELSE "LineString"

\* f"{lon} {lat}" with a bug: the latitude first
LonLat_LatFirst(c) == FloatStr(c[2]) \o <<" ">> \o FloatStr(c[1])

\* f"{lon} {lat}"
LonLat(c) == FloatStr(c[1]) \o <<" ">> \o FloatStr(c[2])

\* ', '.join([f"{lon} {lat}" for lon, lat in coords])
RECURSIVE JoinCoords(_)
JoinCoords(coords) ==
    IF coords = <<>> THEN <<>>
    ELSE IF Len(coords) = 1 THEN LonLat(coords[1])
    ELSE LonLat(coords[1]) \o <<",", " ">> \o JoinCoords(Tail(coords))

coords_to_wkt(coords, geom_type) ==
    IF geom_type = "Point"
    THEN <<"P", "O", "I", "N", "T", "(">> \o LonLat(coords[1]) \o <<")">>
    ELSE IF geom_type = "LineString"
    THEN <<"L", "I", "N", "E", "S", "T", "R", "I", "N", "G", "(">>
         \o JoinCoords(coords) \o <<")">>
    ELSE <<"P", "O", "L", "Y", "G", "O", "N", "(", "(">>
         \o JoinCoords(coords) \o <<")", ")">>

(***************************************************************************)
(* kml_to_csv                                                              *)
(***************************************************************************)
Header ==
    <<"id", "name", "geometry_type", "geometry_wkt", "coordinate_count",
      "lon_min", "lon_max", "lat_min", "lat_max">>

Lons(coords) == [k \in 1..Len(coords) |-> coords[k][1]]

Lats(coords) == [k \in 1..Len(coords) |-> coords[k][2]]

\* the row of the Point branch
PointRow(f, coords) ==
    <<f.id, f.name, "Point", coords_to_wkt(coords, "Point"), Len(coords),
      coords[1][1], coords[1][1], coords[1][2], coords[1][2]>>

\* the row of the LineString branch with a bug: max before min
LineStringRow_MaxFirst(f, coords) ==
    LET geom_type == determine_geometry_type(coords)
    IN  <<f.id, f.name, geom_type, coords_to_wkt(coords, geom_type), Len(coords),
          PyMax(Lons(coords)), PyMin(Lons(coords)),
          PyMax(Lats(coords)), PyMin(Lats(coords))>>

\* the row of the LineString branch
LineStringRow(f, coords) ==
    LET geom_type == determine_geometry_type(coords)
    IN  <<f.id, f.name, geom_type, coords_to_wkt(coords, geom_type), Len(coords),
          PyMin(Lons(coords)), PyMax(Lons(coords)),
          PyMin(Lats(coords)), PyMax(Lats(coords))>>

\* the row of the Polygon branch
PolygonRow(f, coords) ==
    <<f.id, f.name, "Polygon", coords_to_wkt(coords, "Polygon"), Len(coords),
      PyMin(Lons(coords)), PyMax(Lons(coords)),
      PyMin(Lats(coords)), PyMax(Lats(coords))>>

(***************************************************************************)
(* The documents: a placemark is what the three find() probes return on    *)
(* it, each either no element (None) or a coordinates element with its     *)
(* text.  The n-th placemark of the document carries the id n and has no   *)
(* name child.  A placemark has no geometry, or one geometry element with  *)
(* any of the texts below, or several: then the one of highest priority is *)
(* blank or a single coordinate and the others are open or malformed.      *)
(***************************************************************************)
NotFound == [found |-> FALSE, text |-> NoneText]

Found(t) == [found |-> TRUE, text |-> t]

\* <coordinates/>: the element has no text
TextNone == NoneText

\* " "
TextBlank == Text(<<" ">>)

\* "5": one token, one part
TextShort == Text(<<"5">>)

\* "3,2"
TextOne == Text(<<"3", ",", "2">>)

\* "1,2,a 3,1": two coordinates, open; the first with a third part
TextOpen == Text(<<"1", ",", "2", ",", "a", " ", "3", ",", "1">>)

\* "1,2 1,2": two coordinates, the first equal to the last
TextClosed == Text(<<"1", ",", "2", " ", "1", ",", "2">>)

\* "3,1 n,1": the second token's longitude is not a number
TextBad == Text(<<"3", ",", "1", " ", "n", ",", "1">>)

\* "nan,2 3,nan": float() reads the first longitude and the last latitude as NaN
TextNaN == Text(<<"n", "a", "n", ",", "2", " ", "3", ",", "n", "a", "n">>)

CoordTexts ==
    {TextNone, TextBlank, TextShort, TextOne, TextOpen, TextClosed, TextBad, TextNaN}

\* the texts of an element that shadows another, and of a shadowed element
ShadowingTexts == {TextBlank, TextOne}

ShadowedTexts == {TextOpen, TextBad}

Probes == {NotFound} \cup {Found(t) : t \in CoordTexts}

GeometryCount(f) ==
    (IF f.point.found THEN 1 ELSE 0) + (IF f.linestring.found THEN 1 ELSE 0)
    + (IF f.polygon.found THEN 1 ELSE 0)

\* the placemarks of the model, before their ids
Shapes ==
    {f \in [name : {""}, point : Probes, linestring : Probes, polygon : Probes] :
        GeometryCount(f) > 1 =>
            /\ f.point.found =>
                  /\ f.point.text \in ShadowingTexts
                  /\ f.linestring.found => f.linestring.text \in ShadowedTexts
                  /\ f.polygon.found => f.polygon.text \in ShadowedTexts
            /\ ~f.point.found =>
                  /\ f.linestring.text \in ShadowingTexts
                  /\ f.polygon.text \in ShadowedTexts}

Placemark(n, shape) ==
    [id |-> n, name |-> shape.name, point |-> shape.point,
     linestring |-> shape.linestring, polygon |-> shape.polygon]

\* root.findall('.//kml:Placemark', ns) of the documents of at most MaxFeatures placemarks
Documents ==
    {[k \in DOMAIN d |-> Placemark(k, d[k])] :
        d \in UNION {[1..n -> Shapes] : n \in 0..MaxFeatures}}

\* before the loop: no placemark yet
NoPlacemark == [id |-> 0, name |-> "", point |-> NotFound, linestring |-> NotFound,
                polygon |-> NotFound]

NoCall == [fn |-> "none"]

\* kml_to_csv uses no database: no table, no transaction, no connection
NoTable == [exists |-> FALSE, rows |-> <<>>]

NoDb == [committed |-> NoTable, working |-> NoTable, log |-> <<>>]

NoConn == <<>>

\* the Point branch of the loop body on the coordinates element it found: the
\* exception parse_coordinates raises, or the rows after the branch
PointBranch(rows, f) ==
    LET parsed == parse_coordinates(f.point.text)
    IN  IF parsed.exc # "" THEN Raise(parsed.exc)
        ELSE IF parsed.val # <<>> THEN Return(Append(rows, PointRow(f, parsed.val)))
        ELSE Return(rows)

\* the LineString branch
LineStringBranch(rows, f) ==
    LET parsed == parse_coordinates(f.linestring.text)
    IN  IF parsed.exc # "" THEN Raise(parsed.exc)
        ELSE IF parsed.val # <<>> THEN Return(Append(rows, LineStringRow(f, parsed.val)))
        ELSE Return(rows)

\* the Polygon branch
PolygonBranch(rows, f) ==
    LET parsed == parse_coordinates(f.polygon.text)
    IN  IF parsed.exc # "" THEN Raise(parsed.exc)
        ELSE IF parsed.val # <<>> THEN Return(Append(rows, PolygonRow(f, parsed.val)))
        ELSE Return(rows)

\* the loop body with a bug: the LineString probe before the Point probe
LoopBody_LineStringFirst(rows, f) ==
    IF f.linestring.found THEN LineStringBranch(rows, f)
    ELSE IF f.point.found THEN PointBranch(rows, f)
    ELSE IF f.polygon.found THEN PolygonBranch(rows, f)
    ELSE Return(rows)

\* the loop body with a bug: no continue after the Point and LineString branches
LoopBody_NoContinue(rows, f) ==
    LET a == IF f.point.found THEN PointBranch(rows, f) ELSE Return(rows)
        b == IF a.exc = "" /\ f.linestring.found THEN LineStringBranch(a.val, f) ELSE a
    IN  IF b.exc = "" /\ f.polygon.found THEN PolygonBranch(b.val, f) ELSE b

\* the loop body with a bug: a placemark without geometry is an error
LoopBody_NoGeometryRaises(rows, f) ==
    IF f.point.found THEN PointBranch(rows, f)
    ELSE IF f.linestring.found THEN LineStringBranch(rows, f)
    ELSE IF f.polygon.found THEN PolygonBranch(rows, f)
    ELSE Raise("ValueError")

\* the body of the for loop on one placemark
LoopBody(rows, f) ==
    IF f.point.found THEN PointBranch(rows, f)
    ELSE IF f.linestring.found THEN LineStringBranch(rows, f)
    ELSE IF f.polygon.found THEN PolygonBranch(rows, f)
    ELSE Return(rows)

\* the loop over the placemarks: the file's rows and the exception that ended it
RECURSIVE Loop(_, _)
Loop(rows, placemarks) ==
    IF placemarks = <<>> THEN [exc |-> "", rows |-> rows]
    ELSE LET r == LoopBody(rows, Head(placemarks))
         IN  IF r.exc # "" THEN [exc |-> r.exc, rows |-> rows]
             ELSE Loop(r.val, Tail(placemarks))

\* kml_to_csv on a document: what the file holds when it returns or raises
kml_to_csv(placemarks) == Loop(<<Header>>, placemarks)

Init ==
    /\ doc \in Documents
    /\ pc = "start"
    /\ exc = ""
    /\ i = 0
    /\ placemark = NoPlacemark
    /\ csvfile = <<>>
    /\ call = NoCall
    /\ ret = NoCall
    /\ db = NoDb
    /\ conn = NoConn

\* open(csv_path, 'w') and writer.writerow(header)
WriteHeader ==
    /\ pc = "start"
    /\ pc' = "loop"
    /\ csvfile' = <<Header>>
    /\ UNCHANGED <<doc, exc, i, placemark, call, ret, db, conn>>

\* one iteration of the loop, on the next placemark of the document
Iterate ==
    LET f == doc[i + 1]
        r == LoopBody(csvfile, f)
    IN  /\ placemark' = f
        /\ i' = i + 1
        /\ exc' = r.exc
        /\ pc' = IF r.exc # "" THEN "error" ELSE "loop"
        /\ csvfile' = IF r.exc # "" THEN csvfile ELSE r.val
        /\ UNCHANGED <<doc, call, ret, db, conn>>

ProcessPoint ==
    /\ pc = "loop"
    /\ i < Len(doc)
    /\ doc[i + 1].point.found
    /\ Iterate

ProcessLineString ==
    /\ pc = "loop"
    /\ i < Len(doc)
    /\ ~doc[i + 1].point.found
    /\ doc[i + 1].linestring.found
    /\ Iterate

ProcessPolygon ==
    /\ pc = "loop"
    /\ i < Len(doc)
    /\ ~doc[i + 1].point.found
    /\ ~doc[i + 1].linestring.found
    /\ doc[i + 1].polygon.found
    /\ Iterate

ProcessNoGeometry ==
    /\ pc = "loop"
    /\ i < Len(doc)
    /\ ~doc[i + 1].point.found
    /\ ~doc[i + 1].linestring.found
    /\ ~doc[i + 1].polygon.found
    /\ Iterate

\* findall() is exhausted: the with block closes the file
Finish ==
    /\ pc = "loop"
    /\ i = Len(doc)
    /\ pc' = "done"
    /\ UNCHANGED <<doc, exc, i, placemark, csvfile, call, ret, db, conn>>

Next ==
    \/ WriteHeader
    \/ ProcessPoint
    \/ ProcessLineString
    \/ ProcessPolygon
    \/ ProcessNoGeometry
    \/ Finish

Spec == Init /\ [][Next]_vars

(***************************************************************************)
(* parse_coordinates and coords_to_wkt called on their own                 *)
(***************************************************************************)
\* the characters of the coordinate strings handed to parse_coordinates
ParseChars == {" ", ",", "1", "2", "n"}

Strings == UNION {[1..n -> ParseChars] : n \in 0..MaxLen}

\* the floats of the sequences handed to coords_to_wkt
WktFloats == {Num(0), Num(7), Num(12), NaN}

CoordSeqs == UNION {[1..n -> WktFloats \X WktFloats] : n \in 1..MaxCoords}

GeomTypes == {"Point", "LineString", "Polygon"}

Idle ==
    /\ doc = <<>>
    /\ pc = "start"
    /\ exc = ""
    /\ i = 0
    /\ placemark = NoPlacemark
    /\ csvfile = <<>>
    /\ db = NoDb
    /\ conn = NoConn

InitParse ==
    /\ Idle
    /\ call \in {[fn |-> "parse_coordinates", coord_string |-> Text(s)] : s \in Strings}
    /\ ret = NoCall

CallParse ==
    /\ call.fn = "parse_coordinates"
    /\ ret = NoCall
    /\ ret' = LET r == parse_coordinates(call.coord_string)
              IN  [fn |-> "parse_coordinates", exc |-> r.exc, val |-> r.val]
    /\ UNCHANGED <<doc, pc, exc, i, placemark, csvfile, call, db, conn>>

SpecParse == InitParse /\ [][CallParse]_vars

InitWkt ==
    /\ Idle
    /\ call \in {[fn |-> "coords_to_wkt", coords |-> c, geom_type |-> g] :
                    c \in CoordSeqs, g \in GeomTypes}
    /\ ret = NoCall

CallWkt ==
    /\ call.fn = "coords_to_wkt"
    /\ ret = NoCall
    /\ ret' = [fn |-> "coords_to_wkt", val |-> coords_to_wkt(call.coords, call.geom_type)]
    /\ UNCHANGED <<doc, pc, exc, i, placemark, csvfile, call, db, conn>>

SpecWkt == InitWkt /\ [][CallWkt]_vars

(***************************************************************************)
(* pg.py: the import of the CSV file into PostgreSQL                       *)
(***************************************************************************)
MaxRows == 2

\* int(s): [ok, val]; ok = FALSE stands for ValueError
PyInt(s) ==
    IF IsDigits(s) THEN [ok |-> TRUE, val |-> DigitsValue(s, 0)]
    ELSE [ok |-> FALSE, val |-> 0]

\* float(s) of a CSV field: what PyFloat reads, and digits "." digits; the
\* fields of the files below have the fraction 0, so val is the whole part
PyFloatText(s) ==
    LET dot == CHOOSE k \in 1..(Len(s) + 1) : k = Len(s) + 1 \/ s[k] = "."
        whole == SubSeq(s, 1, dot - 1)
        frac == SubSeq(s, dot + 1, Len(s))
    IN  IF PyFloat(s).ok THEN PyFloat(s)
        ELSE IF dot <= Len(s) /\ IsDigits(whole) /\ IsDigits(frac)
        THEN [ok |-> TRUE, val |-> Num(DigitsValue(whole, 0))]
        ELSE [ok |-> FALSE, val |-> NaN]

\* the texts ST_GeomFromText is given: one it reads, one it rejects
GoodWkt == "POINT(1 2)"

BadWkt == "POINT("

\* a row of csv.DictReader: the columns the INSERT reads
CsvRow(id, wkt, count, last) ==
    [id |-> id, geometry_wkt |-> wkt, coordinate_count |-> count,
     lon_min |-> <<"1", ".", "0">>, lon_max |-> <<"2", ".", "0">>,
     lat_min |-> <<"1", ".", "0">>, lat_max |-> last]

RowIds == {"a", "b"}

CsvRows ==
    UNION {{CsvRow(id, GoodWkt, <<"2">>, <<"2", ".", "0">>),
            CsvRow(id, GoodWkt, <<"2">>, <<"n", "a", "n">>),
            CsvRow(id, GoodWkt, <<"2", ".", "0">>, <<"2", ".", "0">>),
            CsvRow(id, GoodWkt, <<"2">>, <<>>),
            CsvRow(id, BadWkt, <<"2">>, <<"2", ".", "0">>)} : id \in RowIds}

CsvFiles == UNION {[1..n -> CsvRows] : n \in 0..MaxRows}

\* the table dekut_features: whether it exists, and its rows in insertion order
Table(rows) == [exists |-> TRUE, rows |-> rows]

\* a row that the table held before the run
OldRow ==
    [id |-> "a", geometry_wkt |-> GoodWkt, coordinate_count |-> 1,
     lon_min |-> Num(1), lon_max |-> Num(1), lat_min |-> Num(2), lat_max |-> Num(2)]

\* the database: the committed table, the table as the open transaction sees it,
\* and the statements and transaction ends the server has executed
Database(table) == [committed |-> table, working |-> table, log |-> <<>>]

Logged(d, event) == [d EXCEPT !.log = Append(@, event)]

\* conn.commit()
Commit(d) == [Logged(d, "commit") EXCEPT !.committed = d.working]

\* conn.rollback()
Rollback(d) == [Logged(d, "rollback") EXCEPT !.working = d.committed]

\* a connection and its cursor
Open == [state |-> "open", cursor |-> "open"]

Closed == [state |-> "closed", cursor |-> "closed"]

\* create_table: one execute that drops the table and creates it empty; it
\* raises when the server has no PostGIS to enable
create_table(d, postgis) ==
    IF postgis THEN Return([Logged(d, "create") EXCEPT !.working = Table(<<>>)])
    ELSE Raise("FeatureNotSupported")

\* the parameters of the INSERT: the conversions of one row
InsertParams(row) ==
    LET count == PyInt(row.coordinate_count)
        floats == <<PyFloatText(row.lon_min), PyFloatText(row.lon_max),
                    PyFloatText(row.lat_min), PyFloatText(row.lat_max)>>
    IN  IF count.ok /\ \A k \in 1..4 : floats[k].ok
        THEN Return([id |-> row.id, geometry_wkt |-> row.geometry_wkt,
                     coordinate_count |-> count.val,
                     lon_min |-> floats[1].val, lon_max |-> floats[2].val,
                     lat_min |-> floats[3].val, lat_max |-> floats[4].val])
        ELSE Raise("ValueError")

\* the INSERT without the primary key: a second row of the same id is stored
Insert_NoPrimaryKey(d, row) ==
    LET params == InsertParams(row)
    IN  IF params.exc # "" THEN params
        ELSE IF row.geometry_wkt # GoodWkt THEN Raise("InternalError")
        ELSE Return([Logged(d, "insert") EXCEPT !.working.rows = Append(@, params.val)])

\* cursor.execute of the INSERT for one row: the conversions, then the
\* statement, which fails on a text that is no geometry and on an id the
\* table already holds
Insert(d, row) ==
    LET params == InsertParams(row)
    IN  IF params.exc # "" THEN params
        ELSE IF row.geometry_wkt # GoodWkt THEN Raise("InternalError")
        ELSE IF \E k \in 1..Len(d.working.rows) : d.working.rows[k].id = row.id
        THEN Raise("IntegrityError")
        ELSE Return([Logged(d, "insert") EXCEPT !.working.rows = Append(@, params.val)])

\* the summary queries and the print of the area: the area of no rows is
\* None, which the format rejects; the queries themselves may fail
Summary(d, queries_ok) ==
    IF ~queries_ok THEN Raise("InternalError")
    ELSE IF d.working.rows = <<>> THEN Raise("TypeError")
    ELSE Return(d)

\* import_csv_to_postgres(csv_path, db_config) against a server that may
\* refuse the connection, may lack PostGIS and may fail the summary queries,
\* with a CSV file that may be missing, and a table that may exist before
InitImport ==
    /\ doc = <<>>
    /\ pc = "start"
    /\ exc = ""
    /\ i = 0
    /\ placemark = NoPlacemark
    /\ csvfile \in CsvFiles
    /\ call \in {[fn |-> "import_csv_to_postgres", connect_ok |-> c, postgis |-> p,
                  csv_exists |-> f, queries_ok |-> q] :
                    c \in BOOLEAN, p \in BOOLEAN, f \in BOOLEAN, q \in BOOLEAN}
    /\ ret = NoCall
    /\ db \in {Database(NoTable), Database(Table(<<OldRow>>))}
    /\ conn = NoConn

\* psycopg2.connect and conn.cursor(), before the try
Connect ==
    /\ pc = "start"
    /\ IF call.connect_ok
       THEN /\ conn' = <<Open>>
            /\ pc' = "create_table"
            /\ exc' = exc
       ELSE /\ conn' = conn
            /\ pc' = "raised"
            /\ exc' = "OperationalError"
    /\ UNCHANGED <<doc, i, placemark, csvfile, call, ret, db>>

\* to the except clause with the exception e
Except(e) ==
    /\ pc' = "except"
    /\ exc' = e

CreateTable ==
    /\ pc = "create_table"
    /\ LET r == create_table(db, call.postgis)
       IN  IF r.exc = ""
           THEN /\ db' = r.val
                /\ pc' = "commit_table"
                /\ exc' = exc
           ELSE /\ db' = db
                /\ Except(r.exc)
    /\ UNCHANGED <<doc, i, placemark, csvfile, call, ret, conn>>

CommitTable ==
    /\ pc = "commit_table"
    /\ db' = Commit(db)
    /\ pc' = "open"
    /\ UNCHANGED <<doc, exc, i, placemark, csvfile, call, ret, conn>>

\* open(csv_path) and the DictReader; count = 0
OpenCsv ==
    /\ pc = "open"
    /\ IF call.csv_exists
       THEN /\ pc' = "rows"
            /\ exc' = exc
       ELSE Except("FileNotFoundError")
    /\ i' = 0
    /\ UNCHANGED <<doc, placemark, csvfile, call, ret, db, conn>>

\* one turn of the loop over the rows; count += 1
InsertRow ==
    /\ pc = "rows"
    /\ i < Len(csvfile)
    /\ LET r == Insert(db, csvfile[i + 1])
       IN  IF r.exc = ""
           THEN /\ db' = r.val
                /\ i' = i + 1
                /\ UNCHANGED <<pc, exc>>
           ELSE /\ Except(r.exc)
                /\ UNCHANGED <<db, i>>
    /\ UNCHANGED <<doc, placemark, csvfile, call, ret, conn>>

\* the commit after the loop
CommitRows ==
    /\ pc = "rows"
    /\ i = Len(csvfile)
    /\ db' = Commit(db)
    /\ pc' = "summary"
    /\ UNCHANGED <<doc, exc, i, placemark, csvfile, call, ret, conn>>

PrintSummary ==
    /\ pc = "summary"
    /\ LET r == Summary(db, call.queries_ok)
       IN  IF r.exc = ""
           THEN /\ pc' = "finally"
                /\ exc' = exc
           ELSE Except(r.exc)
    /\ UNCHANGED <<doc, i, placemark, csvfile, call, ret, db, conn>>

\* except Exception: conn.rollback(), then raise
ExceptClause ==
    /\ pc = "except"
    /\ db' = Rollback(db)
    /\ pc' = "finally"
    /\ UNCHANGED <<doc, exc, i, placemark, csvfile, call, ret, conn>>

\* finally: cursor.close(), conn.close(); then the return or the raise
FinallyClause ==
    /\ pc = "finally"
    /\ conn' = [k \in DOMAIN conn |-> Closed]
    /\ pc' = IF exc = "" THEN "returned" ELSE "raised"
    /\ UNCHANGED <<doc, exc, i, placemark, csvfile, call, ret, db>>

NextImport ==
    \/ Connect
    \/ CreateTable
    \/ CommitTable
    \/ OpenCsv
    \/ InsertRow
    \/ CommitRows
    \/ PrintSummary
    \/ ExceptClause
    \/ FinallyClause

SpecImport == InitImport /\ [][NextImport]_vars

(***************************************************************************)
(* flask_server.py: the request handlers                                   *)
(***************************************************************************)
MaxRequests == 2

Handlers ==
    {"get_all_features", "get_polygons", "get_linestrings", "get_points",
     "search_features", "get_stats", "calculate_route", "health_check"}

\* a request: the handler it is routed to, the parameter q of the search, the
\* ids of the route ("" for a missing one), and whether the server accepts
\* the connection
Request(fn, q, start_id, end_id, connect_ok) ==
    [fn |-> fn, q |-> q, start_id |-> start_id, end_id |-> end_id,
     connect_ok |-> connect_ok]

Queries == {"", "gate"}

FeatureIds == {"", "a", "b", "z"}

Requests ==
    UNION {{Request(fn, "", "", "", c) :
                fn \in Handlers \ {"search_features", "calculate_route"}}
           \cup {Request("search_features", q, "", "", c) : q \in Queries}
           \cup {Request("calculate_route", "", s, e, c) :
                    s \in FeatureIds, e \in FeatureIds} : c \in BOOLEAN}

\* the rows the tables of the server hold: one as the import stores it, a
\* second, and one without geometry
RowB == [OldRow EXCEPT !.id = "b"]

NullGeomRow == [OldRow EXCEPT !.id = "b", !.geometry_wkt = ""]

Tables == {NoTable, Table(<<OldRow>>), Table(<<OldRow, RowB>>), Table(<<OldRow, NullGeomRow>>)}

\* the early return of the handlers that check their parameters
MissingParams(req) ==
    \/ req.fn = "search_features" /\ req.q = ""
    \/ req.fn = "calculate_route" /\ (req.start_id = "" \/ req.end_id = "")

\* cursor.execute and fetchall: the statement of each handler but health_check
\* reads dekut_features and fails without it; the route reads the rows of the
\* two ids, the others read every row
Fetch(req, table) ==
    LET wanted(k) == req.fn = "calculate_route" => table.rows[k].id \in {req.start_id, req.end_id}
        keep == {k \in 1..Len(table.rows) : wanted(k)}
    IN  IF req.fn = "health_check" THEN Return({})
        ELSE IF ~table.exists THEN Raise("UndefinedTable")
        ELSE Return({table.rows[k] : k \in keep})

\* the handlers that call json.loads on the geometry of each row
LoadsGeometry ==
    {"get_all_features", "get_polygons", "get_linestrings", "get_points", "search_features"}

\* the body of the response from the rows: json.loads(None) raises TypeError
Build(req, rows) ==
    IF req.fn \in LoadsGeometry /\ \E r \in rows : r.geometry_wkt = ""
    THEN Raise("TypeError")
    ELSE Return(rows)

\* the server with its table, no request yet
InitApi ==
    /\ doc = <<>>
    /\ pc = "idle"
    /\ exc = ""
    /\ i = 0
    /\ placemark = NoPlacemark
    /\ csvfile = <<>>
    /\ call = NoCall
    /\ ret = NoCall
    /\ db \in {Database(t) : t \in Tables}
    /\ conn = NoConn

\* a request arrives and its handler is entered
Receive ==
    /\ pc \in {"idle", "responded"}
    /\ i < MaxRequests
    /\ call' \in Requests
    /\ i' = i + 1
    /\ pc' = "validate"
    /\ exc' = ""
    /\ ret' = NoCall
    /\ UNCHANGED <<doc, placemark, csvfile, db, conn>>

\* return of the handler with a status; a connection that was left open stays
\* open, or the interpreter has freed the object and with it the connection
Respond(status) ==
    /\ pc' = "responded"
    /\ ret' = [fn |-> call.fn, status |-> status]
    /\ \E freed \in BOOLEAN :
          conn' = IF freed THEN [k \in DOMAIN conn |-> Closed] ELSE conn

\* the checks of the parameters, before any connection
Validate ==
    /\ pc = "validate"
    /\ IF MissingParams(call)
       THEN Respond(400)
       ELSE /\ pc' = "connect"
            /\ UNCHANGED <<ret, conn>>
    /\ UNCHANGED <<doc, exc, i, placemark, csvfile, call, db>>

\* conn = get_db_connection(); cursor = conn.cursor(...)
get_db_connection ==
    /\ pc = "connect"
    /\ IF call.connect_ok
       THEN /\ conn' = Append(conn, Open)
            /\ pc' = "execute"
            /\ exc' = exc
       ELSE /\ conn' = conn
            /\ Except("OperationalError")
    /\ UNCHANGED <<doc, i, placemark, csvfile, call, ret, db>>

Execute ==
    /\ pc = "execute"
    /\ LET r == Fetch(call, db.committed)
       IN  IF r.exc # "" THEN Except(r.exc) /\ UNCHANGED <<ret, conn>>
           ELSE IF call.fn = "calculate_route" /\ Cardinality(r.val) # 2
           THEN Respond(404) /\ exc' = exc
           ELSE LET b == Build(call, r.val)
                IN  IF b.exc # "" THEN Except(b.exc) /\ UNCHANGED <<ret, conn>>
                    ELSE /\ pc' = "close"
                         /\ UNCHANGED <<exc, ret, conn>>
    /\ UNCHANGED <<doc, i, placemark, csvfile, call, db>>

\* cursor.close(), conn.close(), return jsonify(...)
CloseAndReturn ==
    /\ pc = "close"
    /\ pc' = "responded"
    /\ ret' = [fn |-> call.fn, status |-> 200]
    /\ conn' = [conn EXCEPT ![Len(conn)] = Closed]
    /\ UNCHANGED <<doc, exc, i, placemark, csvfile, call, db>>

\* except Exception as e: return jsonify({"error": str(e)}), 500
Return500 ==
    /\ pc = "except"
    /\ Respond(500)
    /\ UNCHANGED <<doc, exc, i, placemark, csvfile, call, db>>

NextApi ==
    \/ Receive
    \/ Validate
    \/ get_db_connection
    \/ Execute
    \/ CloseAndReturn
    \/ Return500

SpecApi == InitApi /\ [][NextApi]_vars

(***************************************************************************)
(* What the claims speak of                                                *)
(***************************************************************************)
\* the rows after the header, and the columns of a row
RecordIdx == 2..Len(csvfile)

RowId(r) == r[1]

GeometryType(r) == r[3]

GeometryWkt(r) == r[4]

CoordinateCount(r) == r[5]

LonMin(r) == r[6]

LonMax(r) == r[7]

LatMin(r) == r[8]

LatMax(r) == r[9]

\* the placemark a row was written for: the n-th placemark has the id n
FeatureOf(r) == doc[RowId(r)]

HasGeometry(f) == f.point.found \/ f.linestring.found \/ f.polygon.found

\* the text of the element of highest priority: Point, then LineString, then Polygon
SelectedText(f) ==
    IF f.point.found THEN f.point.text
    ELSE IF f.linestring.found THEN f.linestring.text
    ELSE f.polygon.text

\* the placemark with only its element of highest priority left
HighestOnly(f) ==
    IF f.point.found THEN [f EXCEPT !.linestring = NotFound, !.polygon = NotFound]
    ELSE IF f.linestring.found THEN [f EXCEPT !.polygon = NotFound]
    ELSE f

\* the coordinate sequence parse_coordinates returns for the placemark
ParsedOf(f) == parse_coordinates(SelectedText(f)).val

RowsOfId(n) == {k \in RecordIdx : RowId(csvfile[k]) = n}

RecordIds == [k \in 1..(Len(csvfile) - 1) |-> RowId(csvfile[k + 1])]

\* a <= b on floats: False when either is NaN
FloatLe(a, b) == ~a.nan /\ ~b.nan /\ a.val <= b.val

NoNaN(xs) == \A k \in 1..Len(xs) : ~xs[k].nan

\* m is the least (greatest) of the numbers xs
IsLeast(m, xs) == (\E k \in 1..Len(xs) : xs[k] = m) /\ \A k \in 1..Len(xs) : m.val <= xs[k].val

IsGreatest(m, xs) == (\E k \in 1..Len(xs) : xs[k] = m) /\ \A k \in 1..Len(xs) : m.val >= xs[k].val

\* a part that reads as a number: digits, or nan
Numeric(part) == IsDigits(part) \/ part = <<"n", "a", "n">>

Tokens(text) == PySplit(text.chars)

\* every token of the text has fewer than 2 comma-separated parts (none, when it is blank)
AllTokensShort(text) ==
    \A k \in 1..Len(Tokens(text)) : Len(PySplitComma(Tokens(text)[k])) < 2

\* some token has 2 parts or more, and its longitude or latitude part is not numeric
HasBadToken(text) ==
    /\ ~text.none
    /\ \E k \in 1..Len(Tokens(text)) :
          LET parts == PySplitComma(Tokens(text)[k])
          IN  Len(parts) >= 2 /\ (~Numeric(parts[1]) \/ ~Numeric(parts[2]))

\* the placemark has a recognized geometry whose coordinates parse to a non-empty sequence
Qualifies(f) ==
    /\ HasGeometry(f)
    /\ parse_coordinates(SelectedText(f)).exc = ""
    /\ ParsedOf(f) # <<>>

\* the placemarks of a sequence that qualify, in order
RECURSIVE SelectQualifying(_)
SelectQualifying(s) ==
    IF s = <<>> THEN <<>>
    ELSE IF Qualifies(Head(s)) THEN <<Head(s)>> \o SelectQualifying(Tail(s))
    ELSE SelectQualifying(Tail(s))

\* the placemarks of a sequence that have a geometry, in order
RECURSIVE SelectWithGeometry(_)
SelectWithGeometry(s) ==
    IF s = <<>> THEN <<>>
    ELSE IF HasGeometry(Head(s)) THEN <<Head(s)>> \o SelectWithGeometry(Tail(s))
    ELSE SelectWithGeometry(Tail(s))

QualifyingIds(placemarks) ==
    LET q == SelectQualifying(placemarks) IN [k \in 1..Len(q) |-> q[k].id]

Processed == SubSeq(doc, 1, i)

IsPrefix(s, t) == Len(s) <= Len(t) /\ SubSeq(t, 1, Len(s)) = s

(***************************************************************************)
(* The claims                                                              *)
(***************************************************************************)
\* C1: every record's geometry_type is "Point" when the Point probe matched, "Polygon"
\* when the Polygon probe matched, and under the LineString probe "Point" for a single
\* coordinate, else "Polygon" when the first coordinate equals the last (two identical
\* points included), else "LineString".
C1_GeometryType ==
    \A k \in RecordIdx :
        LET r == csvfile[k]
            f == FeatureOf(r)
            coords == ParsedOf(f)
        IN  GeometryType(r) =
                IF f.point.found THEN "Point"
                ELSE IF f.linestring.found
                THEN IF Len(coords) = 1 THEN "Point"
                     ELSE IF TupleEq(coords[1], coords[Len(coords)]) THEN "Polygon"
                     ELSE "LineString"
                ELSE "Polygon"

\* a LineString element of two identical points was written as a Polygon
C1_Witness ==
    \E k \in RecordIdx :
        LET r == csvfile[k]
            f == FeatureOf(r)
        IN  /\ ~f.point.found
            /\ f.linestring.found
            /\ Len(ParsedOf(f)) = 2
            /\ GeometryType(r) = "Polygon"

\* C2: every record's bounds are the minimum and maximum of the longitudes and of the
\* latitudes of its whole parsed sequence, and a record of type "Point" has a single
\* coordinate, which all four bounds equal (stated for the sequences without NaN).
C2_BoundsAreExtrema ==
    \A k \in RecordIdx :
        LET r == csvfile[k]
            coords == ParsedOf(FeatureOf(r))
        IN  NoNaN(Lons(coords)) /\ NoNaN(Lats(coords)) =>
                /\ IsLeast(LonMin(r), Lons(coords))
                /\ IsGreatest(LonMax(r), Lons(coords))
                /\ IsLeast(LatMin(r), Lats(coords))
                /\ IsGreatest(LatMax(r), Lats(coords))
                /\ GeometryType(r) = "Point" =>
                      /\ Len(coords) = 1
                      /\ LonMin(r) = coords[1][1] /\ LonMax(r) = coords[1][1]
                      /\ LatMin(r) = coords[1][2] /\ LatMax(r) = coords[1][2]

\* C3, as claimed: every record's coordinate_count is the length of its parsed sequence,
\* and lon_min <= lon_max and lat_min <= lat_max.
C3_CountAndOrder ==
    \A k \in RecordIdx :
        LET r == csvfile[k]
            coords == ParsedOf(FeatureOf(r))
        IN  /\ CoordinateCount(r) = Len(coords)
            /\ FloatLe(LonMin(r), LonMax(r))
            /\ FloatLe(LatMin(r), LatMax(r))

\* C3, amended: every record's coordinate_count is the length of its parsed sequence;
\* lon_min <= lon_max unless the first longitude is NaN, and then both are NaN;
\* lat_min <= lat_max unless the first latitude is NaN, and then both are NaN.
C3_CountAndOrderUnlessNaN ==
    \A k \in RecordIdx :
        LET r == csvfile[k]
            coords == ParsedOf(FeatureOf(r))
        IN  /\ CoordinateCount(r) = Len(coords)
            /\ IF coords[1][1].nan THEN LonMin(r).nan /\ LonMax(r).nan
               ELSE FloatLe(LonMin(r), LonMax(r))
            /\ IF coords[1][2].nan THEN LatMin(r).nan /\ LatMax(r).nan
               ELSE FloatLe(LatMin(r), LatMax(r))

\* a record of two coordinates whose bounds differ in both axes
C3_Witness ==
    \E k \in RecordIdx :
        LET r == csvfile[k]
        IN  /\ CoordinateCount(r) = 2
            /\ NoNaN(<<LonMin(r), LonMax(r), LatMin(r), LatMax(r)>>)
            /\ LonMin(r).val < LonMax(r).val
            /\ LatMin(r).val < LatMax(r).val

\* C4: a placemark whose selected coordinates element has no text, only whitespace, or
\* only tokens of fewer than 2 parts is skipped: no record, no error, and the run goes on.
C4_EmptyIsSkipped ==
    \A j \in 1..i :
        (HasGeometry(doc[j]) /\ (SelectedText(doc[j]).none \/ AllTokensShort(SelectedText(doc[j]))))
            => RowsOfId(j) = {} /\ ~(pc = "error" /\ i = j)

\* C5: each placemark yields at most one record, and the file and the outcome are those
\* of the document in which every placemark keeps only its element of highest priority
\* (Point, then LineString, then Polygon): a shadowed element is never used, also when
\* the element of highest priority parses to nothing.
C5_HighestPriorityOnly ==
    pc # "start" =>
        LET only == [k \in 1..i |-> HighestOnly(doc[k])]
        IN  /\ \A j \in 1..i : Cardinality(RowsOfId(j)) <= 1
            /\ csvfile = kml_to_csv(only).rows
            /\ exc = kml_to_csv(only).exc

\* a placemark with a blank Point element and a LineString element left no record
C5_Witness ==
    /\ pc = "done"
    /\ \E j \in 1..i :
          /\ doc[j].point.found
          /\ AllTokensShort(doc[j].point.text)
          /\ doc[j].linestring.found
          /\ Qualifies([doc[j] EXCEPT !.point = NotFound])
          /\ RowsOfId(j) = {}

\* C6: when the selected text of a placemark has a token of 2 parts or more whose
\* longitude or latitude is not numeric, the run ends there with a ValueError: the file
\* holds the header and the records of the earlier placemarks and nothing else, and no
\* later placemark is processed.
C6_BadNumberAborts ==
    \A j \in 1..i :
        (HasGeometry(doc[j]) /\ HasBadToken(SelectedText(doc[j]))) =>
            /\ pc = "error"
            /\ exc = "ValueError"
            /\ i = j
            /\ csvfile = kml_to_csv(SubSeq(doc, 1, j - 1)).rows
            /\ \A k \in RecordIdx : RowId(csvfile[k]) < j

\* the second placemark's text is malformed: the run ended with the first one's record
C6_Witness ==
    /\ pc = "error"
    /\ exc = "ValueError"
    /\ i = 2
    /\ Len(doc) = 2
    /\ HasBadToken(SelectedText(doc[2]))
    /\ Len(csvfile) = 2

\* C7, as claimed: when the run has ended (other than by the missing text of C4), the
\* file is the header followed by one row for each placemark of the document that has a
\* recognized geometry with a non-empty parsed sequence, in document order.
C7_OneRowPerFeature ==
    (pc \in {"done", "error"} /\ exc # "AttributeError") =>
        /\ csvfile[1] = Header
        /\ RecordIds = QualifyingIds(doc)

\* C7, amended: the header is written first, and at every moment the rows after it are
\* one row for each placemark processed so far that has a recognized geometry with a
\* non-empty parsed sequence, in document order; a run that ends without an exception
\* has processed every placemark; and a step only ever appends to the file.
C7_OneRowPerProcessedFeature ==
    /\ [](pc # "start" =>
            /\ csvfile[1] = Header
            /\ RecordIds = QualifyingIds(Processed)
            /\ pc = "done" => i = Len(doc))
    /\ [][IsPrefix(csvfile, csvfile')]_vars

\* a finished run over two placemarks with a row for each
C7_Witness ==
    /\ pc = "done"
    /\ Len(doc) = 2
    /\ RecordIds = <<1, 2>>

\* C8: a placemark without Point, LineString or Polygon leaves no row and raises
\* nothing, and the file and the outcome are at every moment those of the document
\* without such placemarks.
C8_NoGeometryIsAbsent ==
    pc # "start" =>
        LET others == SelectWithGeometry(Processed)
        IN  /\ \A j \in 1..i :
                  ~HasGeometry(doc[j]) => RowsOfId(j) = {} /\ ~(pc = "error" /\ i = j)
            /\ csvfile = kml_to_csv(others).rows
            /\ exc = kml_to_csv(others).exc
            /\ pc = "done" => i = Len(doc)

\* a finished run wrote the row of a placemark that follows one without geometry
C8_Witness ==
    /\ pc = "done"
    /\ Len(doc) = 2
    /\ ~HasGeometry(doc[1])
    /\ RecordIds = <<2>>

(***************************************************************************)
(* C9: reading a WKT string back.  The reader accepts exactly the three    *)
(* forms of the claim: the keyword, "(" or "((", pairs separated by ", ",  *)
(* the two numbers of a pair separated by one space, ")" or "))".          *)
(***************************************************************************)
StartsWith(s, p) == Len(s) >= Len(p) /\ SubSeq(s, 1, Len(p)) = p

EndsWith(s, p) == Len(s) >= Len(p) /\ SubSeq(s, Len(s) - Len(p) + 1, Len(s)) = p

Between(s, p, q) == SubSeq(s, Len(p) + 1, Len(s) - Len(q))

\* a number as repr() writes it: nan, or the decimal digits followed by ".0"
ReadNumber(t) ==
    IF t = <<"n", "a", "n">> THEN [ok |-> TRUE, val |-> NaN]
    ELSE IF /\ EndsWith(t, <<".", "0">>)
            /\ IsDigits(SubSeq(t, 1, Len(t) - 2))
            /\ NatStr(DigitsValue(SubSeq(t, 1, Len(t) - 2), 0)) = SubSeq(t, 1, Len(t) - 2)
    THEN [ok |-> TRUE, val |-> Num(DigitsValue(SubSeq(t, 1, Len(t) - 2), 0))]
    ELSE [ok |-> FALSE, val |-> NaN]

\* "lon lat": two numbers and one space between them
ReadPair(t) ==
    LET n == WordLen(t)
        lon == ReadNumber(SubSeq(t, 1, n))
        lat == ReadNumber(SubSeq(t, n + 2, Len(t)))
    IN  [ok |-> n < Len(t) /\ lon.ok /\ lat.ok, val |-> <<lon.val, lat.val>>]

\* the fields of "a, b, c": after each comma exactly one space
ReadList(body) ==
    LET fields == PySplitComma(body)
        item(k) == IF k = 1 THEN fields[k] ELSE Tail(fields[k])
    IN  [ok |-> /\ \A k \in 2..Len(fields) : fields[k] # <<>> /\ Head(fields[k]) = " "
                /\ \A k \in 1..Len(fields) : ReadPair(item(k)).ok,
         val |-> [k \in 1..Len(fields) |-> ReadPair(item(k)).val]]

ReadWkt(s) ==
    LET point == <<"P", "O", "I", "N", "T", "(">>
        line == <<"L", "I", "N", "E", "S", "T", "R", "I", "N", "G", "(">>
        polygon == <<"P", "O", "L", "Y", "G", "O", "N", "(", "(">>
    IN  IF StartsWith(s, point) /\ EndsWith(s, <<")">>)
        THEN LET r == ReadPair(Between(s, point, <<")">>))
             IN  [ok |-> r.ok, geom_type |-> "Point", coords |-> <<r.val>>]
        ELSE IF StartsWith(s, line) /\ EndsWith(s, <<")">>)
        THEN LET r == ReadList(Between(s, line, <<")">>))
             IN  [ok |-> r.ok, geom_type |-> "LineString", coords |-> r.val]
        ELSE IF StartsWith(s, polygon) /\ EndsWith(s, <<")", ")">>)
        THEN LET r == ReadList(Between(s, polygon, <<")", ")">>))
             IN  [ok |-> r.ok, geom_type |-> "Polygon", coords |-> r.val]
        ELSE [ok |-> FALSE, geom_type |-> "", coords |-> <<>>]

\* C9: coords_to_wkt writes a non-empty sequence as POINT(lon lat) of its first
\* coordinate, as LINESTRING(lon lat, lon lat, ...) or as POLYGON((lon lat, ...)) of all
\* its coordinates in order, so that reading the WKT back gives the kind and, for a
\* LineString or Polygon, the whole sequence.
C9_WktReadsBack ==
    ret.fn = "coords_to_wkt" =>
        LET r == ReadWkt(ret.val)
        IN  /\ r.ok
            /\ r.geom_type = call.geom_type
            /\ r.coords = IF call.geom_type = "Point" THEN <<call.coords[1]>>
                          ELSE call.coords

\* a LineString of two different coordinates was written
C9_Witness ==
    /\ ret.fn = "coords_to_wkt"
    /\ call.geom_type = "LineString"
    /\ Len(call.coords) = 2
    /\ call.coords[1] # call.coords[2]
    /\ call.coords[1][1] # call.coords[1][2]

(***************************************************************************)
(* C10: the tokens and their parts, stated by position                     *)
(***************************************************************************)
\* the maximal runs of non-space characters of s, as <<first, last>>
TokenSpans(s) ==
    {sp \in (1..Len(s)) \X (1..Len(s)) :
        /\ sp[1] <= sp[2]
        /\ \A k \in sp[1]..sp[2] : s[k] # " "
        /\ sp[1] = 1 \/ s[sp[1] - 1] = " "
        /\ sp[2] = Len(s) \/ s[sp[2] + 1] = " "}

Commas(s, sp) == {k \in sp[1]..sp[2] : s[k] = ","}

\* the spans of the tokens with 2 parts or more, in input order
GoodSpans(s) ==
    LET good == {sp \in TokenSpans(s) : Commas(s, sp) # {}}
    IN  [k \in 1..Cardinality(good) |->
            CHOOSE sp \in good : Cardinality({o \in good : o[1] < sp[1]}) = k - 1]

FirstComma(s, sp) == CHOOSE k \in Commas(s, sp) : \A o \in Commas(s, sp) : k <= o

\* the end of the second part: before the second comma, or the end of the token
SecondEnd(s, sp) ==
    LET later == {k \in Commas(s, sp) : k > FirstComma(s, sp)}
    IN  IF later = {} THEN sp[2] ELSE (CHOOSE k \in later : \A o \in later : k <= o) - 1

LonPart(s, sp) == SubSeq(s, sp[1], FirstComma(s, sp) - 1)

LatPart(s, sp) == SubSeq(s, FirstComma(s, sp) + 1, SecondEnd(s, sp))

Importing == call.fn = "import_csv_to_postgres"

ImportDone == Importing /\ pc \in {"returned", "raised"}

\* the run gets as far as the loop over the rows
ReachesRows == call.connect_ok /\ call.postgis /\ call.csv_exists

\* a row whose fields are no numbers, whose text is no geometry, or whose id
\* an earlier row of the file has
FieldsConvert(row) ==
    /\ IsDigits(row.coordinate_count)
    /\ \A f \in {row.lon_min, row.lon_max, row.lat_min, row.lat_max} :
          ReadNumber(f).ok \/ Numeric(f)

RowFails(k) ==
    \/ ~FieldsConvert(csvfile[k])
    \/ csvfile[k].geometry_wkt = BadWkt
    \/ \E j \in 1..(k - 1) : csvfile[j].id = csvfile[k].id

SomeRowFails == \E k \in 1..Len(csvfile) : RowFails(k)

IdsOf(rows) == [k \in 1..Len(rows) |-> rows[k].id]

Positions(event) == {k \in 1..Len(db.log) : db.log[k] = event}

\* C11: import_csv_to_postgres is all-or-nothing for the rows of one run. The
\* creation of the table is committed before any row is inserted; the rows are
\* committed by one commit after the insert of the last row, so the committed
\* table holds none of the file's rows or all of them; when the insert or the
\* conversion of some row fails, the run rolls back and raises that error, and
\* the table exists and is empty, whatever it held before; and when the run has
\* returned or raised, the cursor and the connection are closed.
C11_AllOrNothing ==
    Importing =>
        /\ \A k \in Positions("insert") :
              k > 2 /\ db.log[1] = "create" /\ db.log[2] = "commit"
        /\ \A k \in Positions("commit") :
              k > 2 => /\ Positions("insert") = 3..(k - 1)
                       /\ k - 3 = Len(csvfile)
        /\ Len(db.log) >= 2 =>
              /\ db.committed.exists
              /\ \/ db.committed.rows = <<>>
                 \/ IdsOf(db.committed.rows) = IdsOf(csvfile)
        /\ pc = "returned" => IdsOf(db.committed.rows) = IdsOf(csvfile)
        /\ ImportDone /\ ReachesRows /\ SomeRowFails =>
              /\ pc = "raised"
              /\ exc \in {"ValueError", "InternalError", "IntegrityError"}
              /\ db.log[Len(db.log)] = "rollback"
              /\ db.committed = Table(<<>>)
              /\ db.working = db.committed
        /\ ImportDone => \A k \in DOMAIN conn : conn[k] = Closed

\* a file whose second row has the id of its first: the first insert is rolled
\* back, the error is raised, the connection is closed
C11_Witness ==
    /\ ImportDone
    /\ Len(csvfile) = 2
    /\ i = 1
    /\ exc = "IntegrityError"
    /\ pc = "raised"
    /\ db.log = <<"create", "commit", "insert", "rollback">>
    /\ db.committed = Table(<<>>)
    /\ conn = <<Closed>>

(***************************************************************************)
(* Claims about flask_server.py                                            *)
(***************************************************************************)
Serving == call.fn \in Handlers

\* C12: when a request handler has returned its response, whatever the status
\* (200, 400, 404 or 500), no connection that a handler opened is open.
C12_ConnectionsClosed ==
    Serving /\ pc = "responded" => \A k \in DOMAIN conn : conn[k] = Closed

====
